---- MODULE Spec2Model ----
(***************************************************************************)
(* minicache: an in-process key/value cache with per-entry expiration, a   *)
(* background gc loop and gob snapshots (src/minicache.go).                *)
(*                                                                         *)
(* Every exported method is modelled step by step: the call (argument      *)
(* evaluation and whatever the method does before it touches the mutex),   *)
(* the acquisition of rwmtx, and the body executed while the mutex is      *)
(* held, which ends with the release and the return.                       *)
(***************************************************************************)
EXTENDS Integers, Sequences, FiniteSets, TLC

\* ------------------------------------------------------------------ bounds
\* The wall clock runs from 1 to MaxTime.
MaxTime == 3
\* Calls the clients may start in one run of Spec, all clients together.
MaxCalls == 2
\* Calls the clients may start in one run of SpecSeq, one call at a time.
MaxSeqCalls == 5
\* Calls the clients may start in one run of SpecFlush.
MaxFlushCalls == 3
\* Calls the clients may start in one run of SpecStop.
MaxStopCalls == 3

\* ------------------------------------------------------- program constants
NoExpiration == -1
defaultExpiration == 0

\* --------------------------------------------------------------- universe
Clients == {"c1", "c2"}
Keys == {"k1", "k2"}
\* The keys each client uses: the clients meet on k1.
KeysOf(p) == IF p = "c1" THEN Keys ELSE {"k1"}
\* Each client writes the value that identifies it.
ValueOf(p) == IF p = "c1" THEN "A" ELSE "B"
\* The ttl arguments callers pass: never, default, and a positive duration.
Durations == {NoExpiration, defaultExpiration, 1}
\* The cache-wide default ttls NewMiniCache is given.
DefaultDurations == {NoExpiration, defaultExpiration, 1}
\* The gc intervals NewMiniCache is given: negative, zero and positive.
Intervals == {-1, 0, 1}

GC == "gc"
Procs == Clients \cup {GC}
NoProc == "none"
NoKey == "nokey"
NoValue == "nil"

VARIABLES
    items,          \* minic.items: a function from the stored keys to Items
    minicDefault,   \* minic.defaultExpiration
    rwmtx,          \* minic.rwmtx: [writer, readers]
    now,            \* the wall clock, time.Now().UnixNano()
    pc,             \* where each goroutine stands
    local,          \* each client's arguments and locals of the call in progress
    ret,            \* what each client's last completed call returned
    gcNow,          \* DeleteExpired's local `now`
    stream,         \* the bytes of the snapshot file/stream, as gob tokens
    budget,         \* calls the clients may still start
    origin,         \* history: per key, the (t0, d) of the Set that stored its entry
    race,           \* history: the key all clients are adding at once, and since when
    trail,          \* history: how far a Save, Flush, Load sequence has come
    gcInterval,     \* minic.gcInterval
    flushed,        \* history: whether a Flush emptied the map and nothing was stored
                    \* since, and the keys it removed
    recent          \* history: the keys stored, with a ttl, by a call that read the
                    \* clock no earlier than the sweep in progress did

vars == <<items, minicDefault, rwmtx, now, pc, local, ret, gcNow, stream, budget,
          origin, race, trail, gcInterval, flushed, recent>>

\* What NewMiniCache sets and nothing changes afterwards.
config == <<minicDefault, gcInterval>>

\* ------------------------------------------------------------------ Item
Item(v, e) == [Object |-> v, Expiration |-> e]

\* IsExpired with the comparison made inclusive: expired at the instant itself.
IsExpired_AtInstant(item, t) ==
    IF item.Expiration = 0 THEN FALSE ELSE t >= item.Expiration

\* Item.IsExpired, with t the value of time.Now().UnixNano() at the check.
IsExpired(item, t) ==
    IF item.Expiration = 0 THEN FALSE ELSE t > item.Expiration

\* The expiration computed without regard to the cache's default ttl.
Expire_IgnoresDefault(d, t) == IF d > 0 THEN t + d ELSE 0

\* The expiration Set and set compute from a ttl d at clock value t.
Expire(d, t) ==
    LET dd == IF d = defaultExpiration THEN minicDefault ELSE d
    IN  IF dd > 0 THEN t + dd ELSE 0

\* get without the expiry check: whatever is in the map is found.
get_NoExpiry(k) ==
    IF k \notin DOMAIN items
    THEN [Object |-> NoValue, found |-> FALSE]
    ELSE [Object |-> items[k].Object, found |-> TRUE]

\* minic.get: the value and whether a live entry was found.
get(k) ==
    IF k \notin DOMAIN items \/ IsExpired(items[k], now)
    THEN [Object |-> NoValue, found |-> FALSE]
    ELSE [Object |-> items[k].Object, found |-> TRUE]

\* m with key k bound to item it (a map assignment m[k] = it).
Put(m, k, it) == [x \in (DOMAIN m) \cup {k} |-> IF x = k THEN it ELSE m[x]]

\* delete(m, k)
Remove(m, k) == [x \in (DOMAIN m) \ {k} |-> m[x]]

EmptyMap == [x \in {} |-> Item(NoValue, 0)]

\* ------------------------------------------------------------- gob codec
\* A snapshot is the sequence of tokens gob writes for a map: its length,
\* then one (key, Item) pair per entry in the map's iteration order.
Orders(S) == {o \in [1..Cardinality(S) -> S] : \A i, j \in DOMAIN o : i # j => o[i] # o[j]}

Encode(m, o) ==
    <<Cardinality(DOMAIN m)>> \o [i \in DOMAIN o |-> <<o[i], m[o[i]]>>]

\* Decode that takes a truncated stream for a complete one.
DecodeOk_Truncated(s) == Len(s) > 0

\* dec.Decode: fails on an empty or truncated stream.
DecodeOk(s) == Len(s) > 0 /\ Len(s) = s[1] + 1

Decode(s) ==
    LET ks == {s[i][1] : i \in 2..Len(s)}
    IN  [k \in ks |-> s[CHOOSE i \in 2..Len(s) : s[i][1] = k][2]]

\* What an interrupted write leaves of a snapshot: a proper prefix.
Prefixes(s) == {SubSeq(s, 1, n) : n \in 0..(Len(s) - 1)}

\* Snapshots that were not written by this cache's Save: complete streams
\* whose entries carry any int64 as Expiration, a negative one included.
ForeignExpirations == {-2, 0, 2}
ForeignMaps ==
    UNION {[ks -> {Item("F", e) : e \in ForeignExpirations}] : ks \in (SUBSET Keys) \ {{}}}
ForeignStreams == UNION {{Encode(m, o) : o \in Orders(DOMAIN m)} : m \in ForeignMaps}

\* ----------------------------------------------------------------- locals
NoLocal == [k |-> NoKey, v |-> NoValue, d |-> 0, t |-> 0, e |-> 0, m |-> EmptyMap]
\* A result: the error returned ("" for nil or for a method without one), and
\* for Get the value and found, for Count the number.
NoRet == [err |-> "pending", v |-> NoValue, found |-> FALSE, n |-> 0]
Ok == [err |-> "", v |-> NoValue, found |-> FALSE, n |-> 0]
Error(e) == [Ok EXCEPT !.err = e]

\* ---------------------------------------------------------------- history
NoOrigin == [t0 |-> 0, d |-> 0]
NoRace == [k |-> NoKey, t |-> 0]
NoTrail == [phase |-> "none", t |-> 0, m |-> EmptyMap]
NoFlush == [on |-> FALSE, keys |-> {}]

\* origin once the keys in ks were written or removed by a client call other
\* than the Set recorded for them.  A sweep of the gc loop is no such call.
Touched(ks) == [k \in Keys |-> IF k \in ks THEN NoOrigin ELSE origin[k]]

OthersIdle(p) == \A q \in Clients \ {p} : pc[q] = "idle"

\* trail as client p starts a call that will wait at l: a Flush right after
\* a Save, or a Load right after that Flush, carries the sequence on.
TrailOnCall(p, l) ==
    IF OthersIdle(p) /\ l = "FlushRLock" /\ trail.phase = "saved"
    THEN [trail EXCEPT !.phase = "flushing"]
    ELSE IF OthersIdle(p) /\ l = "LoadLock" /\ trail.phase = "flushed"
    THEN [trail EXCEPT !.phase = "loading"]
    ELSE NoTrail

\* A sweep has read the clock and has not yet got the mutex.
SweepPending == pc[GC] = "GcLock"

\* recent once key k got an entry with expiration e from a call that read the
\* clock at t: k is recorded if the entry expires and the clock was read no
\* earlier than the pending sweep read it.
Stored(k, e, t) ==
    IF SweepPending /\ e > 0 /\ t >= gcNow THEN recent \cup {k} ELSE recent \ {k}

\* ------------------------------------------------------------------ mutex
Unlocked == [writer |-> NoProc, readers |-> {}]

\* rwmtx.Lock() may return: nobody holds the mutex.
CanLock == rwmtx.writer = NoProc /\ rwmtx.readers = {}
\* rwmtx.RLock() may return: no writer holds the mutex.
CanRLock == rwmtx.writer = NoProc

AfterUnlock(p) == [rwmtx EXCEPT !.writer = NoProc]
AfterRUnlock(p) == [rwmtx EXCEPT !.readers = @ \ {p}]

\* The program points at which a goroutine waits in rwmtx.Lock() and in
\* rwmtx.RLock(), and the point it reaches once the call returns.
LockPcs == {"SetLock", "AddLock", "ReplaceLock", "DeleteLock", "CountLock",
            "SaveLock", "LoadLock", "GcLock"}
RLockPcs == {"GetRLock", "FlushRLock"}

Locked(l) ==
    CASE l = "SetLock" -> "SetStore"
      [] l = "AddLock" -> "AddGet"
      [] l = "ReplaceLock" -> "ReplaceGet"
      [] l = "DeleteLock" -> "DeleteBody"
      [] l = "CountLock" -> "CountBody"
      [] l = "SaveLock" -> "SaveBody"
      [] l = "LoadLock" -> "LoadMerge"
      [] l = "GcLock" -> "GcSweep"
      [] l = "GetRLock" -> "GetRead"
      [] l = "FlushRLock" -> "FlushBody"

\* ------------------------------------------------------------------- Init
\* NewMiniCache: an empty map, the configured default ttl and gc interval,
\* the gc goroutine started and about to create its ticker.
InitWith(calls, defaults, intervals, streams) ==
    /\ items = EmptyMap
    /\ minicDefault \in defaults
    /\ gcInterval \in intervals
    /\ rwmtx = Unlocked
    /\ now = 1
    /\ pc = [p \in Procs |-> IF p = GC THEN "GcStart" ELSE "idle"]
    /\ local = [p \in Clients |-> NoLocal]
    /\ ret = [p \in Clients |-> NoRet]
    /\ gcNow = 0
    /\ stream \in streams
    /\ budget = calls
    /\ origin = [k \in Keys |-> NoOrigin]
    /\ race = NoRace
    /\ trail = NoTrail
    /\ flushed = NoFlush
    /\ recent = {}

\* Two clients, the default ttl positive as in example/main.go.
Init == InitWith(MaxCalls, {1}, {1}, {<<>>})

\* The default ttl "never", for the runs of SpecSeq.
InitSeq == InitWith(MaxSeqCalls, {NoExpiration}, {1}, {<<>>})

\* ------------------------------------------------------------------ clock
Tick ==
    /\ now < MaxTime
    /\ now' = now + 1
    /\ UNCHANGED <<items, config, rwmtx, pc, local, ret, gcNow, stream, budget,
                   origin, race, trail,
                   flushed, recent>>

\* ------------------------------------------------------------------ calls
\* Client p starts a call: the arguments are bound, the code that runs before
\* the mutex is requested is executed (its results are in loc), and p waits
\* for the mutex at l.
Begin(p, l, loc) ==
    /\ pc[p] = "idle"
    /\ budget > 0
    /\ budget' = budget - 1
    /\ pc' = [pc EXCEPT ![p] = l]
    /\ local' = [local EXCEPT ![p] = loc]
    /\ ret' = [ret EXCEPT ![p] = NoRet]
    /\ race' = IF /\ l = "AddLock"
                  /\ \A q \in Clients \ {p} : pc[q] = "AddLock" /\ local[q].k = loc.k
                  /\ ~get(loc.k).found
               THEN [k |-> loc.k, t |-> now]
               ELSE NoRace
    /\ trail' = TrailOnCall(p, l)
    /\ UNCHANGED <<items, config, rwmtx, now, gcNow, stream, origin,
                   flushed, recent>>

\* Set: the expiration is computed from time.Now() before Lock().
CallSet(p) ==
    \E k \in KeysOf(p), d \in Durations :
        Begin(p, "SetLock",
              [NoLocal EXCEPT !.k = k, !.v = ValueOf(p), !.d = d, !.t = now,
                              !.e = Expire(d, now)])

CallAdd(p) ==
    \E k \in KeysOf(p), d \in Durations :
        Begin(p, "AddLock", [NoLocal EXCEPT !.k = k, !.v = ValueOf(p), !.d = d])

CallReplace(p) ==
    \E k \in KeysOf(p), d \in Durations :
        Begin(p, "ReplaceLock", [NoLocal EXCEPT !.k = k, !.v = ValueOf(p), !.d = d])

CallGet(p) == \E k \in KeysOf(p) : Begin(p, "GetRLock", [NoLocal EXCEPT !.k = k])

CallDelete(p) == \E k \in KeysOf(p) : Begin(p, "DeleteLock", [NoLocal EXCEPT !.k = k])

CallCount(p) == Begin(p, "CountLock", NoLocal)

CallFlush(p) == Begin(p, "FlushRLock", NoLocal)

CallSave(p) == Begin(p, "SaveLock", NoLocal)

CallStopgc(p) == Begin(p, "StopSend", NoLocal)

\* Load decodes the whole stream into a fresh map before it asks for the
\* mutex.
CallLoad(p) ==
    /\ DecodeOk(stream)
    /\ Begin(p, "LoadLock", [NoLocal EXCEPT !.m = Decode(stream)])

\* Load on a stream that does not decode: the error is returned at once.
CallLoadFail(p) ==
    /\ ~DecodeOk(stream)
    /\ pc[p] = "idle"
    /\ budget > 0
    /\ budget' = budget - 1
    /\ ret' = [ret EXCEPT ![p] = Error("decode")]
    /\ race' = NoRace
    /\ trail' = NoTrail
    /\ UNCHANGED <<items, config, rwmtx, now, pc, local, gcNow, stream, origin,
                   flushed, recent>>

\* ------------------------------------------------------------ acquisition
Lock(p) ==
    /\ pc[p] \in LockPcs
    /\ CanLock
    /\ rwmtx' = [rwmtx EXCEPT !.writer = p]
    /\ pc' = [pc EXCEPT ![p] = Locked(pc[p])]
    /\ UNCHANGED <<items, config, now, local, ret, gcNow, stream, budget,
                   origin, race, trail,
                   flushed, recent>>

RLock(p) ==
    /\ pc[p] \in RLockPcs
    /\ CanRLock
    /\ rwmtx' = [rwmtx EXCEPT !.readers = @ \cup {p}]
    /\ pc' = [pc EXCEPT ![p] = Locked(pc[p])]
    /\ UNCHANGED <<items, config, now, local, ret, gcNow, stream, budget,
                   origin, race, trail,
                   flushed, recent>>

\* The call of client p returns r.
Done(p, r) ==
    /\ pc' = [pc EXCEPT ![p] = "idle"]
    /\ local' = [local EXCEPT ![p] = NoLocal]
    /\ ret' = [ret EXCEPT ![p] = r]

\* ----------------------------------------------------------------- bodies
\* Set, holding the mutex: the map assignment, the deferred Unlock.
SetStore(p) ==
    /\ pc[p] = "SetStore"
    /\ items' = Put(items, local[p].k, Item(local[p].v, local[p].e))
    /\ rwmtx' = AfterUnlock(p)
    /\ origin' = [origin EXCEPT ![local[p].k] =
                    IF local[p].d > 0 \/ local[p].d = NoExpiration
                    THEN [t0 |-> local[p].t, d |-> local[p].d]
                    ELSE NoOrigin]
    /\ trail' = NoTrail
    /\ flushed' = NoFlush
    /\ recent' = Stored(local[p].k, local[p].e, local[p].t)
    /\ Done(p, Ok)
    /\ UNCHANGED <<config, now, gcNow, stream, budget, race>>

\* minic.set, the unlocked insert Add and Replace use: the expiration is
\* computed from time.Now() at the insert.
set(k, v, d) == Put(items, k, Item(v, Expire(d, now)))

\* Add that releases the mutex between its lookup and its insert.
AddGet_Unlocks(p) ==
    /\ pc[p] = "AddGet"
    /\ rwmtx' = AfterUnlock(p)
    /\ IF get(local[p].k).found
       THEN Done(p, Error("exists"))
       ELSE /\ pc' = [pc EXCEPT ![p] = "AddSet"]
            /\ UNCHANGED <<local, ret>>
    /\ trail' = NoTrail
    /\ UNCHANGED <<items, config, now, gcNow, stream, budget, origin, race,
                   flushed, recent>>

\* Add that returns its error without the Unlock.
AddGet_KeepsLock(p) ==
    /\ pc[p] = "AddGet"
    /\ IF get(local[p].k).found
       THEN Done(p, Error("exists"))
       ELSE /\ pc' = [pc EXCEPT ![p] = "AddSet"]
            /\ UNCHANGED <<local, ret>>
    /\ trail' = NoTrail
    /\ UNCHANGED <<items, config, rwmtx, now, gcNow, stream, budget, origin, race,
                   flushed, recent>>

\* Add, holding the mutex: the lookup; a live entry is the error return.
AddGet(p) ==
    /\ pc[p] = "AddGet"
    /\ IF get(local[p].k).found
       THEN /\ rwmtx' = AfterUnlock(p)
            /\ Done(p, Error("exists"))
       ELSE /\ pc' = [pc EXCEPT ![p] = "AddSet"]
            /\ UNCHANGED <<rwmtx, local, ret>>
    /\ trail' = NoTrail
    /\ UNCHANGED <<items, config, now, gcNow, stream, budget, origin, race,
                   flushed, recent>>

\* Add, holding the mutex: the insert and the Unlock.
AddSet(p) ==
    /\ pc[p] = "AddSet"
    /\ items' = set(local[p].k, local[p].v, local[p].d)
    /\ rwmtx' = AfterUnlock(p)
    /\ origin' = Touched({local[p].k})
    /\ trail' = NoTrail
    /\ flushed' = NoFlush
    /\ recent' = Stored(local[p].k, Expire(local[p].d, now), now)
    /\ Done(p, Ok)
    /\ UNCHANGED <<config, now, gcNow, stream, budget, race>>

\* Replace that looks the key up in the map without the expiry check.
ReplaceGet_NoExpiry(p) ==
    /\ pc[p] = "ReplaceGet"
    /\ IF local[p].k \notin DOMAIN items
       THEN /\ rwmtx' = AfterUnlock(p)
            /\ Done(p, Error("notexists"))
       ELSE /\ pc' = [pc EXCEPT ![p] = "ReplaceSet"]
            /\ UNCHANGED <<rwmtx, local, ret>>
    /\ trail' = NoTrail
    /\ UNCHANGED <<items, config, now, gcNow, stream, budget, origin, race,
                   flushed, recent>>

\* Replace, holding the mutex: the lookup; no live entry is the error return.
ReplaceGet(p) ==
    /\ pc[p] = "ReplaceGet"
    /\ IF ~get(local[p].k).found
       THEN /\ rwmtx' = AfterUnlock(p)
            /\ Done(p, Error("notexists"))
       ELSE /\ pc' = [pc EXCEPT ![p] = "ReplaceSet"]
            /\ UNCHANGED <<rwmtx, local, ret>>
    /\ trail' = NoTrail
    /\ UNCHANGED <<items, config, now, gcNow, stream, budget, origin, race,
                   flushed, recent>>

\* Replace, holding the mutex: the insert and the Unlock.
ReplaceSet(p) ==
    /\ pc[p] = "ReplaceSet"
    /\ items' = set(local[p].k, local[p].v, local[p].d)
    /\ rwmtx' = AfterUnlock(p)
    /\ origin' = Touched({local[p].k})
    /\ trail' = NoTrail
    /\ recent' = Stored(local[p].k, Expire(local[p].d, now), now)
    /\ Done(p, Ok)
    /\ UNCHANGED <<config, now, gcNow, stream, budget, race,
                   flushed>>

\* Get that deletes the entry it finds expired.
GetRead_Removes(p) ==
    /\ pc[p] = "GetRead"
    /\ LET k == local[p].k
           found == k \in DOMAIN items /\ ~IsExpired(items[k], now)
       IN  /\ Done(p, [Ok EXCEPT !.v = IF found THEN items[k].Object ELSE NoValue,
                                 !.found = found])
           /\ items' = IF found THEN items ELSE Remove(items, k)
    /\ rwmtx' = AfterRUnlock(p)
    /\ trail' = NoTrail
    /\ UNCHANGED <<config, now, gcNow, stream, budget, origin, race,
                   flushed, recent>>

\* Get, holding the mutex shared: the lookup, the expiry check, RUnlock.
GetRead(p) ==
    /\ pc[p] = "GetRead"
    /\ LET k == local[p].k
           found == k \in DOMAIN items /\ ~IsExpired(items[k], now)
       IN  Done(p, [Ok EXCEPT !.v = IF found THEN items[k].Object ELSE NoValue,
                              !.found = found])
    /\ rwmtx' = AfterRUnlock(p)
    /\ trail' = NoTrail
    /\ UNCHANGED <<items, config, now, gcNow, stream, budget, origin, race,
                   flushed, recent>>

\* Delete, holding the mutex: the removal, the deferred Unlock.
DeleteBody(p) ==
    /\ pc[p] = "DeleteBody"
    /\ items' = Remove(items, local[p].k)
    /\ rwmtx' = AfterUnlock(p)
    /\ origin' = Touched({local[p].k})
    /\ trail' = NoTrail
    /\ recent' = recent \ {local[p].k}
    /\ Done(p, Ok)
    /\ UNCHANGED <<config, now, gcNow, stream, budget, race,
                   flushed>>

\* Count, holding the mutex: len(minic.items).
CountBody(p) ==
    /\ pc[p] = "CountBody"
    /\ rwmtx' = AfterUnlock(p)
    /\ trail' = NoTrail
    /\ Done(p, [Ok EXCEPT !.n = Cardinality(DOMAIN items)])
    /\ UNCHANGED <<items, config, now, gcNow, stream, budget, origin, race,
                   flushed, recent>>

\* Flush that removes the expired entries only.
FlushBody_KeepsLive(p) ==
    /\ pc[p] = "FlushBody"
    /\ items' = [k \in {x \in DOMAIN items : ~IsExpired(items[x], now)} |-> items[k]]
    /\ rwmtx' = AfterRUnlock(p)
    /\ origin' = Touched(Keys)
    /\ trail' = IF trail.phase = "flushing" THEN [trail EXCEPT !.phase = "flushed"]
                ELSE NoTrail
    /\ flushed' = [on |-> TRUE, keys |-> flushed.keys \cup DOMAIN items]
    /\ recent' = {}
    /\ Done(p, Ok)
    /\ UNCHANGED <<config, now, gcNow, stream, budget, race>>

\* Flush, holding the mutex shared: the map is replaced by an empty one.
FlushBody(p) ==
    /\ pc[p] = "FlushBody"
    /\ items' = EmptyMap
    /\ rwmtx' = AfterRUnlock(p)
    /\ origin' = Touched(Keys)
    /\ trail' = IF trail.phase = "flushing" THEN [trail EXCEPT !.phase = "flushed"]
                ELSE NoTrail
    /\ flushed' = [on |-> TRUE, keys |-> flushed.keys \cup DOMAIN items]
    /\ recent' = {}
    /\ Done(p, Ok)
    /\ UNCHANGED <<config, now, gcNow, stream, budget, race>>

\* Save that returns its error without the deferred Unlock.
SaveBody_KeepsLock(p) ==
    /\ pc[p] = "SaveBody"
    /\ \E o \in Orders(DOMAIN items) :
         \/ /\ stream' = Encode(items, o)
            /\ trail' = [phase |-> "saved", t |-> now, m |-> items]
            /\ rwmtx' = AfterUnlock(p)
            /\ Done(p, Ok)
         \/ /\ stream' \in Prefixes(Encode(items, o))
            /\ trail' = NoTrail
            /\ rwmtx' = rwmtx
            /\ Done(p, Error("encode"))
    /\ UNCHANGED <<items, config, now, gcNow, budget, origin, race,
                   flushed, recent>>

\* Save, holding the mutex: the whole map is encoded to the stream in the
\* map's iteration order; a failing write leaves a prefix and is the error.
SaveBody(p) ==
    /\ pc[p] = "SaveBody"
    /\ \E o \in Orders(DOMAIN items) :
         \/ /\ stream' = Encode(items, o)
            /\ trail' = [phase |-> "saved", t |-> now, m |-> items]
            /\ Done(p, Ok)
         \/ /\ stream' \in Prefixes(Encode(items, o))
            /\ trail' = NoTrail
            /\ Done(p, Error("encode"))
    /\ rwmtx' = AfterUnlock(p)
    /\ UNCHANGED <<items, config, now, gcNow, budget, origin, race,
                   flushed, recent>>

\* Load that overwrites every key of the decoded map.
Loaded_All(cur, dec, t) == DOMAIN dec

\* The keys of the decoded map dec that Load stores into cur at clock value
\* t: those with no entry in cur, or an expired one.
Loaded(cur, dec, t) ==
    {k \in DOMAIN dec : k \notin DOMAIN cur \/ IsExpired(cur[k], t)}

\* Load that skips the decoded entries that are expired.
Merge_DropsExpired(cur, dec, t) ==
    LET fresh == {k \in Loaded(cur, dec, t) : ~IsExpired(dec[k], t)}
    IN  [k \in (DOMAIN cur) \cup fresh |-> IF k \in fresh THEN dec[k] ELSE cur[k]]

\* The map Load leaves.
Merge(cur, dec, t) ==
    [k \in (DOMAIN cur) \cup (DOMAIN dec) |->
        IF k \in Loaded(cur, dec, t) THEN dec[k] ELSE cur[k]]

\* Load, holding the mutex: the merge of the decoded map, the deferred Unlock.
LoadMerge(p) ==
    /\ pc[p] = "LoadMerge"
    /\ items' = Merge(items, local[p].m, now)
    /\ rwmtx' = AfterUnlock(p)
    /\ origin' = Touched(Loaded(items, local[p].m, now))
    /\ trail' = IF trail.phase = "loading" THEN [trail EXCEPT !.phase = "loaded"]
                ELSE NoTrail
    /\ flushed' = NoFlush
    /\ recent' = recent \ Loaded(items, local[p].m, now)
    /\ Done(p, Ok)
    /\ UNCHANGED <<config, now, gcNow, stream, budget, race>>

\* ------------------------------------------------------------------ gc loop
\* time.NewTicker(minic.gcInterval): it panics on an interval that is not
\* positive, and a panic nobody recovers ends the program with all its
\* goroutines.
GcNewTicker ==
    /\ pc[GC] = "GcStart"
    /\ pc' = IF gcInterval > 0
             THEN [pc EXCEPT ![GC] = "GcSelect"]
             ELSE [p \in Procs |-> "crashed"]
    /\ UNCHANGED <<items, config, rwmtx, now, local, ret, gcNow, stream, budget,
                   origin, race, trail, flushed, recent>>

\* A gc loop whose ticker goes on after the stop.
GcTick_AfterStop ==
    /\ pc[GC] \in {"GcSelect", "GcStopped"}
    /\ gcNow' = now
    /\ pc' = [pc EXCEPT ![GC] = "GcLock"]
    /\ recent' = {}
    /\ UNCHANGED <<items, config, rwmtx, now, local, ret, stream, budget,
                   origin, race, trail, flushed>>

\* A sweep whose `now` is ahead of the clock the clients read.
GcTick_Ahead ==
    /\ pc[GC] = "GcSelect"
    /\ gcNow' = now + 1
    /\ pc' = [pc EXCEPT ![GC] = "GcLock"]
    /\ recent' = {}
    /\ UNCHANGED <<items, config, rwmtx, now, local, ret, stream, budget,
                   origin, race, trail, flushed>>

\* case <-ticker.C: DeleteExpired samples the clock, then asks for the mutex.
GcTick ==
    /\ pc[GC] = "GcSelect"
    /\ gcNow' = now
    /\ pc' = [pc EXCEPT ![GC] = "GcLock"]
    /\ recent' = {}
    /\ UNCHANGED <<items, config, rwmtx, now, local, ret, stream, budget,
                   origin, race, trail, flushed>>

\* The sweep without its test for "never expires".
Swept_NoGuard(m, t) == {k \in DOMAIN m : t > m[k].Expiration}

\* The sweep with the comparison made inclusive.
Swept_AtInstant(m, t) == {k \in DOMAIN m : m[k].Expiration > 0 /\ t >= m[k].Expiration}

\* The keys one sweep removes from m, with t the sweep's `now`.
Swept(m, t) == {k \in DOMAIN m : m[k].Expiration > 0 /\ t > m[k].Expiration}

\* DeleteExpired, holding the mutex: the sweep, the deferred Unlock.
GcSweep ==
    /\ pc[GC] = "GcSweep"
    /\ items' = [k \in (DOMAIN items) \ Swept(items, gcNow) |-> items[k]]
    /\ rwmtx' = AfterUnlock(GC)
    /\ gcNow' = 0
    /\ pc' = [pc EXCEPT ![GC] = "GcSelect"]
    /\ trail' = IF trail.phase = "loaded" THEN NoTrail ELSE trail
    /\ recent' = {}
    /\ UNCHANGED <<config, now, local, ret, stream, budget, origin, race,
                   flushed>>

\* Stopgc's send on the unbuffered stopGc meets the loop's receive.
StopRecv(p) ==
    /\ pc[p] = "StopSend"
    /\ pc[GC] = "GcSelect"
    /\ pc' = [pc EXCEPT ![p] = "idle", ![GC] = "GcStopped"]
    /\ local' = [local EXCEPT ![p] = NoLocal]
    /\ ret' = [ret EXCEPT ![p] = Ok]
    /\ UNCHANGED <<items, config, rwmtx, now, gcNow, stream, budget,
                   origin, race, trail,
                   flushed, recent>>

\* ------------------------------------------------------------------- Next
\* One step of client p.
Client(p) ==
    \/ CallSet(p) \/ CallAdd(p) \/ CallReplace(p) \/ CallGet(p)
    \/ CallDelete(p) \/ CallCount(p) \/ CallFlush(p) \/ CallSave(p)
    \/ CallLoad(p) \/ CallLoadFail(p) \/ CallStopgc(p)
    \/ Lock(p) \/ RLock(p)
    \/ SetStore(p) \/ AddGet(p) \/ AddSet(p) \/ ReplaceGet(p) \/ ReplaceSet(p)
    \/ GetRead(p) \/ DeleteBody(p) \/ CountBody(p) \/ FlushBody(p)
    \/ SaveBody(p) \/ LoadMerge(p) \/ StopRecv(p)

\* One step of the gc goroutine or of the clock.
Background == Tick \/ GcNewTicker \/ GcTick \/ Lock(GC) \/ GcSweep

Next == Background \/ \E p \in Clients : Client(p)

Spec == Init /\ [][Next]_vars

\* The scheduling the Go runtime gives, as far as the properties below rest
\* on it.  Nothing makes a client call, the ticker fire or the clock advance.
Holding(p) ==
    \/ SetStore(p) \/ AddGet(p) \/ AddSet(p) \/ ReplaceGet(p) \/ ReplaceSet(p)
    \/ GetRead(p) \/ DeleteBody(p) \/ CountBody(p) \/ FlushBody(p)
    \/ SaveBody(p) \/ LoadMerge(p)

\* A goroutine that holds the mutex runs on to its Unlock.
Releases ==
    /\ \A p \in Clients : WF_vars(Holding(p))
    /\ WF_vars(GcSweep)

\* The gc goroutine gets to its select: it creates its ticker, and in
\* DeleteExpired it gets the mutex if the mutex is free again and again.  A
\* select with several ready cases picks one at random, so a send on stopGc
\* that the loop can receive again and again is received.
FairStop ==
    /\ Releases
    /\ WF_vars(GcNewTicker)
    /\ SF_vars(Lock(GC))
    /\ \A p \in Clients : SF_vars(StopRecv(p))

\* A goroutine waiting in Lock or RLock gets the mutex if it is free again
\* and again: sync.RWMutex queues its waiters, hands a starving writer the
\* mutex and lets no reader overtake a waiting writer.
FairLock ==
    /\ Releases
    /\ \A p \in Procs : SF_vars(Lock(p) \/ RLock(p))

\* One step of client p when it stores entries, reads them, and stops the gc
\* loop.
Stops(p) ==
    \/ CallSet(p) \/ CallGet(p) \/ CallStopgc(p)
    \/ Lock(p) \/ RLock(p)
    \/ SetStore(p) \/ GetRead(p) \/ StopRecv(p)

\* The clients take turns, no two calls overlapping, while the clock and the
\* gc loop run.
NextStop == Background \/ \E p \in Clients : OthersIdle(p) /\ Stops(p)

InitStop == InitWith(MaxStopCalls, {1}, {1}, {<<>>})

SpecStop == InitStop /\ [][NextStop]_vars /\ FairStop

\* Every call and the gc loop, under the scheduling of the mutex.
SpecLock == Init /\ [][Next]_vars /\ FairLock

\* The cache constructed with any default ttl.
InitTTL == InitWith(MaxCalls, DefaultDurations, {1}, {<<>>})

SpecTTL == InitTTL /\ [][Next]_vars

\* The cache constructed with any gc interval.
InitNew == InitWith(MaxCalls, {1}, Intervals, {<<>>})

SpecNew == InitNew /\ [][Next]_vars

\* One step of client p when it loads a snapshot and then reads, adds and
\* replaces entries.
Foreign(p) ==
    \/ CallLoad(p) \/ CallGet(p) \/ CallAdd(p) \/ CallReplace(p)
    \/ Lock(p) \/ RLock(p)
    \/ LoadMerge(p) \/ GetRead(p) \/ AddGet(p) \/ AddSet(p)
    \/ ReplaceGet(p) \/ ReplaceSet(p)

NextForeign == Background \/ \E p \in Clients : Foreign(p)

\* The cache as constructed, and a snapshot from elsewhere to load.
InitForeign == InitWith(MaxCalls, {1}, {1}, ForeignStreams)

SpecForeign == InitForeign /\ [][NextForeign]_vars

\* One step of client p when all it does is fill the cache and save, flush
\* and load snapshots.
Snapshots(p) ==
    \/ CallSet(p) \/ CallSave(p) \/ CallFlush(p) \/ CallLoad(p) \/ CallLoadFail(p)
    \/ Lock(p) \/ RLock(p)
    \/ SetStore(p) \/ SaveBody(p) \/ FlushBody(p) \/ LoadMerge(p)

\* The clients take turns at snapshots, no two calls overlapping, within one
\* period of the gc ticker: no sweep runs.
NextSeq == Tick \/ \E p \in Clients : OthersIdle(p) /\ Snapshots(p)

SpecSeq == InitSeq /\ [][NextSeq]_vars

\* One step of client p when it stores entries, flushes the cache, and reads
\* and counts what is there.
Flushes(p) ==
    \/ CallSet(p) \/ CallAdd(p) \/ CallGet(p) \/ CallCount(p) \/ CallFlush(p)
    \/ Lock(p) \/ RLock(p)
    \/ SetStore(p) \/ AddGet(p) \/ AddSet(p) \/ GetRead(p) \/ CountBody(p)
    \/ FlushBody(p)

NextFlush == Background \/ \E p \in Clients : Flushes(p)

InitFlush == InitWith(MaxFlushCalls, {1}, {1}, {<<>>})

SpecFlush == InitFlush /\ [][NextFlush]_vars

\* ================================================================= claims
\* The vocabulary of the claims, stated apart from the code above.

\* Key k has a live entry: one that never expires, or whose instant is not
\* yet past.
Live(k) ==
    k \in DOMAIN items /\ (items[k].Expiration = 0 \/ now <= items[k].Expiration)

\* Key k has an entry that is expired and still in the map.
Stale(k) == k \in DOMAIN items /\ ~Live(k)

\* The expiration a ttl d resolves to at clock value t.
Resolved(d, t) ==
    IF d > 0 THEN t + d
    ELSE IF d = defaultExpiration /\ minicDefault > 0 THEN t + minicDefault
    ELSE 0

\* This step is a step of client p's call.
Steps(p) == pc'[p] # pc[p]

\* Client p holds the mutex in neither mode.
Released(p, mtx) == mtx.writer # p /\ p \notin mtx.readers

\* A stream is complete: its length token counts the pairs that follow.
Complete(s) == Len(s) >= 1 /\ s[1] = Len(s) - 1

\* The shortest positive ttl an entry can get.
ShortestTTL ==
    LET pos == {d \in Durations \cup DefaultDurations : d > 0}
    IN  CHOOSE d \in pos : \A e \in pos : d <= e

\* ----------------------------------------------------------------------- C1
\* C1: when every client calls Add on the same key at once, the key having no
\* live entry, and the race is over before an entry stored in it can expire,
\* exactly one Add returns nil, every other returns "already exists", and the
\* key holds the winner's value.
RaceOver ==
    /\ race # NoRace
    /\ \A p \in Clients : pc[p] = "idle"
    /\ now <= race.t + ShortestTTL

WritePcs == {"SetStore", "AddSet", "ReplaceSet", "DeleteBody", "FlushBody",
             "LoadMerge", "GcSweep"}

C2_WritesExclusive ==
    \A p \in Procs : pc[p] \in WritePcs => rwmtx.writer = p /\ rwmtx.readers = {}

\* ----------------------------------------------------------------------- C3
\* C3 as amended: a Get of a key whose entry a Set stored with ttl d > 0,
\* having read the clock at t0, and that no call touched since, returns found
\* when the clock is at most t0 + d and not-found when it is past t0 + d,
\* swept or not.
GetOfSet(p) ==
    /\ pc[p] = "GetRead"
    /\ origin[local[p].k].d > 0

C3_TTL ==
    [][\A p \in Clients :
        GetOfSet(p) /\ Steps(p) =>
            (ret'[p].found <=> now <= origin[local[p].k].t0 + origin[local[p].k].d)]_vars

\* C3 as stated: found strictly before t0 + d, not-found from t0 + d on.
C3_TTL_Original ==
    [][\A p \in Clients :
        GetOfSet(p) /\ Steps(p) =>
            (ret'[p].found <=> now < origin[local[p].k].t0 + origin[local[p].k].d)]_vars

\* A Get reads such a key at the very instant t0 + d.
C3_Witness ==
    \E p \in Clients :
        /\ GetOfSet(p)
        /\ now = origin[local[p].k].t0 + origin[local[p].k].d

\* ----------------------------------------------------------------------- C4
\* C4 as amended: after Save, Flush, Load with no call in between, the map
\* is the map as it was at the Save, the entries already expired then
\* included, each with its value and expiration.
C4_RoundTrip == trail.phase = "loaded" => items = trail.m

\* C4 as stated: the map holds exactly the entries that were live at the Save.
LiveAtSave ==
    {k \in DOMAIN trail.m :
        trail.m[k].Expiration = 0 \/ trail.t <= trail.m[k].Expiration}

C4_RoundTrip_Original ==
    trail.phase = "loaded" => items = [k \in LiveAtSave |-> trail.m[k]]

\* A round trip of a map that held a live entry and an expired one.
C4_Witness ==
    /\ trail.phase = "loaded"
    /\ LiveAtSave # {}
    /\ LiveAtSave # DOMAIN trail.m

\* ----------------------------------------------------------------------- C5
\* C5: Load merges holding the mutex exclusively; a decoded key that is live
\* in the map keeps its entry, a decoded key that is absent or expired gets
\* the decoded entry, and every other key keeps its entry.
C5_LoadMerge ==
    [][\A p \in Clients :
        pc[p] = "LoadMerge" /\ Steps(p) =>
            /\ rwmtx.writer = p /\ rwmtx.readers = {}
            /\ DOMAIN items' = (DOMAIN items) \cup (DOMAIN local[p].m)
            /\ \A k \in DOMAIN items' :
                 items'[k] = IF k \in DOMAIN local[p].m /\ ~Live(k)
                             THEN local[p].m[k] ELSE items[k]]_vars

\* A Load is about to merge a map that has another value for a live key and
\* an entry for a key that is absent or expired.
C5_Witness ==
    \E p \in Clients :
        /\ pc[p] = "LoadMerge"
        /\ \E k \in DOMAIN local[p].m : Live(k) /\ local[p].m[k].Object # items[k].Object
        /\ \E k \in DOMAIN local[p].m : ~Live(k)

\* ----------------------------------------------------------------------- C6
\* C6: an Add on a key with a live entry returns "already exists", leaves the
\* map as it is and no longer holds the mutex.
C6_AddExists ==
    [][\A p \in Clients :
        pc[p] = "AddGet" /\ Steps(p) /\ Live(local[p].k) =>
            /\ pc'[p] = "idle"
            /\ ret'[p].err = "exists"
            /\ items' = items
            /\ Released(p, rwmtx')]_vars

\* An Add has returned "already exists".
C6_Witness == \E p \in Clients : pc[p] = "idle" /\ ret[p].err = "exists"

\* ----------------------------------------------------------------------- C7
\* C7: a Replace on a key that is absent or expired returns "does not exist"
\* and leaves the map as it is; a Replace on a key with a live entry goes on
\* to store the value and the expiration its ttl resolves to, and returns nil.
C7_Replace ==
    [][\A p \in Clients :
        /\ pc[p] = "ReplaceGet" /\ Steps(p) /\ ~Live(local[p].k) =>
              /\ pc'[p] = "idle"
              /\ ret'[p].err = "notexists"
              /\ items' = items
              /\ Released(p, rwmtx')
        /\ pc[p] = "ReplaceGet" /\ Steps(p) /\ Live(local[p].k) =>
              /\ pc'[p] = "ReplaceSet"
              /\ items' = items
        /\ pc[p] = "ReplaceSet" /\ Steps(p) =>
              /\ pc'[p] = "idle"
              /\ ret'[p].err = ""
              /\ items' = Put(items, local[p].k,
                              Item(local[p].v, Resolved(local[p].d, now)))]_vars

\* A Replace is about to store another value over a live entry.
C7_Witness ==
    \E p \in Clients :
        /\ pc[p] = "ReplaceSet"
        /\ Live(local[p].k)
        /\ items[local[p].k].Object # local[p].v

\* ----------------------------------------------------------------------- C8
\* C8: for a key whose entry is expired and still in the map, Get returns
\* not-found and removes nothing, Add goes on to overwrite it and returns
\* nil, Replace returns "does not exist"; Count counts it and Save writes it.
C8_StaleIsAbsent ==
    [][\A p \in Clients :
        /\ pc[p] = "GetRead" /\ Steps(p) /\ Stale(local[p].k) =>
              ~ret'[p].found /\ items' = items
        /\ pc[p] = "AddGet" /\ Steps(p) /\ Stale(local[p].k) =>
              pc'[p] = "AddSet" /\ items' = items
        /\ pc[p] = "AddSet" /\ Steps(p) =>
              /\ ret'[p].err = ""
              /\ items' = Put(items, local[p].k,
                              Item(local[p].v, Resolved(local[p].d, now)))
        /\ pc[p] = "ReplaceGet" /\ Steps(p) /\ Stale(local[p].k) =>
              ret'[p].err = "notexists" /\ items' = items
        /\ pc[p] = "CountBody" /\ Steps(p) =>
              ret'[p].n = Cardinality(DOMAIN items)
        /\ pc[p] = "SaveBody" /\ Steps(p) /\ ret'[p].err = "" =>
              Complete(stream') /\ Decode(stream') = items]_vars

\* An Add, having found the key's entry expired, is about to overwrite it.
C8_Witness ==
    \E p \in Clients : pc[p] = "AddSet" /\ Stale(local[p].k)

\* ----------------------------------------------------------------------- C9
\* C9: an entry Set stored with the never-expire marker, and that no call
\* touched since, stays in the map through every sweep and every tick, and
\* every Get of its key returns it.
SetNever(k) == origin[k].d = NoExpiration

C9_NeverExpires ==
    /\ [](\A k \in Keys : SetNever(k) => k \in DOMAIN items)
    /\ [][\A p \in Clients :
            pc[p] = "GetRead" /\ Steps(p) /\ SetNever(local[p].k) =>
                ret'[p].found /\ ret'[p].v = items[local[p].k].Object]_vars

\* A sweep that read the clock after the Set is about to run over the entry.
C9_Witness ==
    \E k \in Keys :
        SetNever(k) /\ pc[GC] = "GcSweep" /\ gcNow > origin[k].t0

\* ---------------------------------------------------------------------- C10
\* C10: a Load of a stream that is not complete returns the decoding error
\* at once: it never comes to ask for the mutex, the map is as before and
\* the caller holds the mutex in neither mode.
LoadFails(p) ==
    /\ pc[p] = "idle" /\ pc'[p] = "idle"
    /\ budget' < budget
    /\ ret'[p].err = "decode"
    /\ \A q \in Clients \ {p} : pc'[q] = pc[q]

C10_LoadDecodeError ==
    [][\A p \in Clients :
        /\ pc[p] = "idle" /\ pc'[p] = "LoadLock" => Complete(stream)
        /\ LoadFails(p) =>
              /\ ~Complete(stream)
              /\ items' = items
              /\ rwmtx' = rwmtx
              /\ Released(p, rwmtx')]_vars

\* A Load of a truncated stream has returned the decoding error, the map
\* holding entries.
C10_Witness ==
    \E p \in Clients :
        /\ pc[p] = "idle" /\ ret[p].err = "decode"
        /\ Len(stream) > 0 /\ ~Complete(stream)
        /\ DOMAIN items # {}

\* ---------------------------------------------------------------------- C11
\* C11: from the moment a Flush has emptied the map until a Set, an Add or a
\* Load stores into it, the map is empty: every Count returns 0 and every Get,
\* of whatever key, returns not-found.
C11_FlushEmpties ==
    /\ [](flushed.on => items = EmptyMap)
    /\ [][\A p \in Clients :
            /\ pc[p] = "FlushBody" /\ Steps(p) => flushed'.on /\ items' = EmptyMap
            /\ flushed.on /\ pc[p] = "CountBody" /\ Steps(p) => ret'[p].n = 0
            /\ flushed.on /\ pc[p] = "GetRead" /\ Steps(p) => ~ret'[p].found]_vars

\* A Get, of a key a Set stored before the Flush, is about to read the
\* flushed map.
C11_Witness ==
    \E p \in Clients :
        /\ flushed.on
        /\ pc[p] = "GetRead"
        /\ local[p].k \in flushed.keys

\* ---------------------------------------------------------------------- C12
\* C12: Count returns the number of entries in the map, the expired ones
\* included.  A Get of an expired entry returns not-found and leaves the map
\* as it is.  An expired entry leaves the map only by a sweep, a Delete of its
\* key or a Flush, and a sweep that read the clock after the entry expired
\* does remove it.
C12_CountIsPhysical ==
    [][\A p \in Clients, k \in Keys :
        /\ pc[p] = "CountBody" /\ Steps(p) =>
              /\ ret'[p].n = Cardinality(DOMAIN items)
              /\ items' = items
        /\ pc[p] = "GetRead" /\ Steps(p) =>
              /\ items' = items
              /\ Stale(local[p].k) => ~ret'[p].found
        /\ Stale(k) /\ k \notin DOMAIN items' =>
              \/ pc[GC] = "GcSweep" /\ pc'[GC] = "GcSelect"
              \/ \E q \in Clients :
                    /\ Steps(q)
                    /\ \/ pc[q] = "DeleteBody" /\ local[q].k = k
                       \/ pc[q] = "FlushBody"
        /\ /\ pc[GC] = "GcSweep" /\ pc'[GC] = "GcSelect"
           /\ k \in DOMAIN items
           /\ items[k].Expiration # 0 /\ items[k].Expiration < gcNow
           => k \notin DOMAIN items']_vars

\* A Count is waiting while a sweep, which read the clock after an entry
\* expired, is about to remove that entry.
C12_Witness ==
    /\ pc[GC] = "GcSweep"
    /\ \E k \in Keys : Stale(k) /\ items[k].Expiration < gcNow
    /\ \E p \in Clients : pc[p] = "CountLock"

\* ---------------------------------------------------------------------- C13
\* C13: a Stopgc called while the gc loop runs leads to the loop's end, and
\* the loop ends in the very step in which a Stopgc returns.  Once the loop
\* has ended it stays ended, no sweep samples the clock or runs, the map
\* changes by the clients' calls only, and a Get of an expired entry still
\* returns not-found.
Stopped == pc[GC] = "GcStopped"

C13_StopReaper ==
    /\ ((\E p \in Clients : pc[p] = "StopSend") /\ ~Stopped) ~> Stopped
    /\ [][~Stopped /\ Stopped' =>
            \E p \in Clients :
                pc[p] = "StopSend" /\ pc'[p] = "idle" /\ ret'[p] = Ok]_vars
    /\ [][Stopped =>
            /\ Stopped'
            /\ gcNow' = gcNow
            /\ items' # items => \E p \in Clients : Steps(p)
            /\ \A p \in Clients :
                  pc[p] = "GetRead" /\ Steps(p) /\ Stale(local[p].k) =>
                      ~ret'[p].found /\ items' = items]_vars

\* The loop has ended and a Get is about to read an entry that expired and
\* is still in the map.
C13_Witness ==
    /\ Stopped
    /\ \E p \in Clients : pc[p] = "GetRead" /\ Stale(local[p].k)

\* ---------------------------------------------------------------------- C14
\* C14: a Stopgc called after the gc loop has ended returns.
C14_RepeatStopReturns ==
    \A p \in Clients : (pc[p] = "StopSend" /\ Stopped) ~> (pc[p] = "idle")

\* ---------------------------------------------------------------------- C15
\* C15: in a cache constructed with a gc interval that is zero or negative
\* no goroutine is ever ended by a panic, and no sweep ever samples the clock
\* or runs.
C15_NonPositiveDisables ==
    gcInterval <= 0 =>
        /\ \A p \in Procs : pc[p] # "crashed"
        /\ pc[GC] \notin {"GcLock", "GcSweep"}

\* ---------------------------------------------------------------------- C16
\* C16: a sweep reads the clock once, when it starts, and keeps that value
\* until it ends; it gets the mutex once, exclusively, and gives it back in
\* the step that scans the map.  That step removes exactly the entries whose
\* expiration is an instant of the clock (a positive value) earlier than the
\* value read; every other entry, one that expires at that very value, later
\* or never, stays with its value and expiration.
SweepStarts == pc[GC] = "GcSelect" /\ pc'[GC] = "GcLock"
SweepLocks == pc[GC] = "GcLock" /\ pc'[GC] = "GcSweep"
SweepScans == pc[GC] = "GcSweep" /\ pc'[GC] = "GcSelect"

Past(item, t) == item.Expiration > 0 /\ item.Expiration < t

C16_Sweep ==
    [][/\ SweepStarts => gcNow' = now /\ items' = items
       /\ pc[GC] = "GcLock" => gcNow' = gcNow
       /\ SweepLocks => rwmtx = Unlocked /\ rwmtx'.writer = GC /\ items' = items
       /\ pc[GC] = "GcSweep" => pc'[GC] \in {"GcSweep", "GcSelect"} /\ rwmtx.writer = GC
       /\ pc[GC] = "GcSweep" /\ ~SweepScans => gcNow' = gcNow /\ items' = items
       /\ SweepScans =>
            /\ rwmtx' = Unlocked
            /\ DOMAIN items' = {k \in DOMAIN items : ~Past(items[k], gcNow)}
            /\ \A k \in DOMAIN items' : items'[k] = items[k]]_vars

\* A sweep is about to scan a map with an entry that expired before the
\* sweep read the clock and an entry that expires at the value it read.
C16_Witness ==
    /\ pc[GC] = "GcSweep"
    /\ \E k \in DOMAIN items : Past(items[k], gcNow)
    /\ \E k \in DOMAIN items : items[k].Expiration = gcNow

\* ---------------------------------------------------------------------- C17
\* C17: for every entry in the map and every clock value t, the entry is
\* expired at t for Get, Add, Replace and Load exactly if a sweep that read
\* t removes it; and the scan of a sweep leaves no entry that is expired at
\* the clock value the sweep read.
Clock == 1..MaxTime

C17_PathsAgree ==
    [][/\ \A k \in DOMAIN items, t \in Clock :
            IsExpired(items[k], t) <=> k \in Swept(items, t)
       /\ SweepScans => \A k \in DOMAIN items' : ~IsExpired(items'[k], gcNow)]_vars

\* ---------------------------------------------------------------------- C18
\* C18: a goroutine holds the mutex only between its Lock or RLock and the
\* end of its call or sweep: it holds it neither after a return, an error
\* return included, nor while it waits for the mutex, the ticker or the
\* stop channel.  And every goroutine that waits for the mutex gets it and
\* comes to the end of its call or sweep.
WaitPcs == LockPcs \cup RLockPcs
HoldPcs == {Locked(l) : l \in WaitPcs} \cup {"AddSet", "ReplaceSet"}

C18_NoDeadlock ==
    /\ [](\A p \in Procs : pc[p] \notin HoldPcs => Released(p, rwmtx))
    /\ [][\A p \in Clients :
            pc[p] \in HoldPcs /\ pc'[p] = "idle" => Released(p, rwmtx')]_vars
    /\ \A p \in Procs : (pc[p] \in WaitPcs) ~> (pc[p] \in {"idle", "GcSelect"})

\* A client waits for the mutex while the sweep holds it and the other
\* client waits as well.
C18_Witness ==
    /\ pc[GC] = "GcSweep"
    /\ \A p \in Clients : pc[p] \in WaitPcs

\* ---------------------------------------------------------------------- C19
\* C19: Set stores the expiration its ttl resolves to at the clock value Set
\* read, Add and Replace the one it resolves to at the clock value of the
\* insert: the clock plus the ttl if the ttl is positive, the clock plus the
\* default if the ttl is 0 and the default is positive, and never otherwise.
\* The expiration of a key that stays in the map changes only in a step of a
\* Set, Add or Replace of that key or of a Load whose snapshot has the key.
Stores(p, k) ==
    /\ Steps(p)
    /\ \/ pc[p] \in {"SetStore", "AddSet", "ReplaceSet"} /\ local[p].k = k
       \/ pc[p] = "LoadMerge" /\ k \in DOMAIN local[p].m

C19_TTLFixed ==
    [][/\ \A p \in Clients :
            /\ pc[p] = "SetStore" /\ Steps(p) =>
                  /\ local[p].t <= now
                  /\ items'[local[p].k] =
                        Item(local[p].v, Resolved(local[p].d, local[p].t))
            /\ pc[p] \in {"AddSet", "ReplaceSet"} /\ Steps(p) =>
                  items'[local[p].k] = Item(local[p].v, Resolved(local[p].d, now))
            /\ pc[p] \in {"GetRead", "CountBody", "SaveBody"} /\ Steps(p) =>
                  items' = items
       /\ now' # now => items' = items
       /\ \A k \in (DOMAIN items) \cap (DOMAIN items') :
            items'[k].Expiration # items[k].Expiration =>
                \E p \in Clients : Stores(p, k)]_vars

\* A Set with ttl 0 in a cache whose default ttl is positive is about to
\* store, over an entry of its key, the expiration it computed at an earlier
\* clock value.
C19_Witness ==
    \E p \in Clients :
        /\ pc[p] = "SetStore"
        /\ local[p].d = defaultExpiration /\ minicDefault > 0
        /\ local[p].t < now
        /\ local[p].k \in DOMAIN items

\* ---------------------------------------------------------------------- C20
\* C20: the value a sweep read from the clock is never ahead of the clock,
\* and every entry the scan of a sweep removes is expired in the step that
\* removes it, whatever the clients did since the sweep read the clock.  An
\* entry that a Set, Add or Replace stored with a ttl meanwhile, having read
\* the clock no earlier than the sweep did, is left with its value and
\* expiration.
C20_SweepSparesLive ==
    [][/\ pc[GC] \in {"GcLock", "GcSweep"} => gcNow <= now
       /\ SweepScans =>
            /\ \A k \in (DOMAIN items) \ (DOMAIN items') : ~Live(k)
            /\ \A k \in recent : k \in DOMAIN items' /\ items'[k] = items[k]]_vars

\* A sweep is about to scan a map that holds an entry expired before the
\* sweep read the clock and an entry stored, with a ttl, after it did.
C20_Witness ==
    /\ pc[GC] = "GcSweep"
    /\ recent # {}
    /\ \E k \in DOMAIN items : Past(items[k], gcNow)

====
